---- MODULE Spec2Model ----
(***************************************************************************)
(* os-vif: the lifecycle dispatcher (os_vif/__init__.py), the hybrid       *)
(* OVS backend (vif_plug_ovs/ovs_hybrid.py) and the linux bridge device    *)
(* orchestration (vif_plug_linux_bridge/linux_net.py).                     *)
(*                                                                         *)
(* Every entry point is one action.  A call runs its host commands in      *)
(* program order on the host state; a command the host refuses, or the     *)
(* command number `f` of the call (an injected fault: the executor raises  *)
(* ProcessExecutionError), ends the call there and leaves the host as the  *)
(* commands before it made it.                                             *)
(***************************************************************************)
EXTENDS Integers, Sequences, FiniteSets, TLC

VARIABLES
    EXT_MANAGER,  \* os_vif._EXT_MANAGER: None, or <<the extension manager>>
    nextInst,     \* number of backend instances created so far (instance ids)
    registered,   \* os_vif.objects.register_all() has run
    IPTABLES_MANAGER, \* linux_net._IPTABLES_MANAGER: None, or <<the manager>>
    scope,        \* the entry points this behaviour calls
    host,         \* the host's networking state, read by the probe, changed by commands
    last,         \* the call made last: its arguments, outcome and command log
    lock,         \* lockutils: who holds 'nova-lock_vlan' and 'nova-lock_bridge'
    caller        \* concurrent callers of linux_net: where each is in its call

vars == <<EXT_MANAGER, nextInst, registered, IPTABLES_MANAGER, scope, host, last,
          lock, caller>>

(***************************************************************************)
(* Bounds                                                                  *)
(***************************************************************************)
MaxInst == 4      \* instances the registry may create in one behaviour

\* A fault is injected at one command of a call, or at none (0): the commands
\* a call may reach are those of its run without a fault
Faults(cmds) == 0..Len(cmds)

(***************************************************************************)
(* Values                                                                  *)
(***************************************************************************)
None == <<>>

\* entry points of the 'os_vif' namespace found by stevedore on this host,
\* in either iteration order
Installed == {"ovs_hybrid", "linux_bridge"}
Discoveries == {<<"ovs_hybrid", "linux_bridge">>, <<"linux_bridge", "ovs_hybrid">>}

PortProfiles == {"missing", "VIFPortProfileOpenVSwitch", "VIFPortProfileBase"}

\* A device name is the sequence of its characters.
\* The one VIF of the model: its id, vif.bridge_name and vif.network.bridge
VIF_ID == <<"4", "f", "2", "a", "9", "c", "1", "e", "7", "b", "0", "d">>
BR == <<"q", "b", "r", "4", "f", "2">>
INT_BR == <<"b", "r", "-", "i", "n", "t">>

\* the port profile matters to the hybrid backend only
VIFs == {vif \in [id : {VIF_ID}, plugin : Installed \cup {"nonesuch"},
                  port_profile : PortProfiles, bridge_name : {BR}, network_bridge : {INT_BR}] :
            vif.plugin # "ovs_hybrid" => vif.port_profile = "VIFPortProfileOpenVSwitch"}

\* linux_net: the vlan of the model, its parent interface, the bridge, and a
\* bridge of somebody else on the same host
VLAN_NUM == <<"1", "0", "0">>
ETH == <<"e", "t", "h", "0">>
VLAN_IF == <<"v", "l", "a", "n", "1", "0", "0">>
LB == <<"b", "r", "1", "0", "0">>
OTHER_BR == <<"b", "r", "9">>
NoArg == <<>>         \* Python's None for an argument that is a string
MAC0 == <<"m", "0">>  \* the MAC a vlan interface inherits from its parent
MAC1 == <<"m", "1">>  \* the MAC the network manager asks for

\* what a backend outside src/ may raise from plug, unplug or describe
BackendErrors == {"ProcessExecutionError", "OtherException"}
BackendOutcomes == {"none"} \cup BackendErrors

(***************************************************************************)
(* The host.  hy: the devices of the hybrid backend's VIF; the per-VIF     *)
(* bridge, the veth pair (both ends are one kernel object), the            *)
(* membership of the bridge-side end in the bridge, the OVS port of the    *)
(* OVS-side end, and whether the host has the ipv6 sysctl tree.            *)
(***************************************************************************)
HyFresh == [br |-> FALSE, brUp |-> FALSE, veth |-> FALSE, attached |-> FALSE,
            port |-> FALSE, ipv6 |-> FALSE]

HyStates ==
    {h \in [br : BOOLEAN, brUp : BOOLEAN, veth : BOOLEAN, attached : BOOLEAN,
            port : BOOLEAN, ipv6 : BOOLEAN] :
        /\ h.brUp => h.br
        /\ h.attached => (h.br /\ h.veth)}

(***************************************************************************)
(* vlan: the vlan interface VLAN_IF.  lb: the bridge LB, the bridge that   *)
(* holds ETH (master), and the global-scope addresses and via routes of    *)
(* ETH and of LB.  An address is [ip, flag]; a route is its fields as `ip  *)
(* route show dev` prints them.                                            *)
(***************************************************************************)
VlanAbsent == [exists |-> FALSE, up |-> FALSE, mac |-> MAC0, mtu |-> "1500"]

VlanStates ==
    {VlanAbsent} \cup [exists : {TRUE}, up : BOOLEAN, mac : {MAC0, MAC1}, mtu : {"1500", "1450"}]

ADDR == [ip |-> "10.0.0.5/24", flag |-> "none"]
ADDR_SEC == [ip |-> "10.0.0.6/24", flag |-> "secondary"]
ADDR6 == [ip |-> "2001:db8::5/64", flag |-> "none"]

\* the family of an address, as ip reads it from the address itself
Family(ip) == IF ip = ADDR6.ip THEN "inet6" ELSE "inet"
Inet(addrs) == {a \in addrs : Family(a.ip) = "inet"}
ROUTE == <<"10.0.1.0/24", "via", "10.0.0.1">>
ROUTE_DEFAULT == <<"default", "via", "10.0.0.1">>

LbFresh == [exists |-> FALSE, stp |-> FALSE, up |-> FALSE, master |-> NoArg,
            ifAddrs |-> {}, brAddrs |-> {}, ifRoutes |-> {}, brRoutes |-> {}]

\* the hosts ensure_bridge may find: any bridge state, ETH free or held by a
\* bridge; without a global address, with one and a route through it, or with
\* a primary, a secondary and an IPv6 global address and two routes
LbStates ==
    {b \in [exists : BOOLEAN, stp : BOOLEAN, up : BOOLEAN, master : {NoArg, LB, OTHER_BR},
            ifAddrs : {{}, {ADDR}, {ADDR, ADDR_SEC, ADDR6}}, brAddrs : {{}},
            ifRoutes : {{}, {ROUTE}, {ROUTE, ROUTE_DEFAULT}}, brRoutes : {{}}] :
        /\ (b.stp \/ b.up \/ b.master = LB) => b.exists
        /\ b.ifRoutes # {} => Inet(b.ifAddrs) # {}
        /\ ROUTE_DEFAULT \in b.ifRoutes <=> ADDR6 \in b.ifAddrs}

\* the hosts a first ensure_bridge finds: no bridge, the bridge as ensure_bridge
\* leaves it, or a bridge somebody else made (STP on, down); ETH not yet in it:
\* free, with or without an address and a route, or held by OTHER_BR
LbFound ==
    {b \in LbStates :
        /\ b.master # LB
        /\ b.exists => (b.stp = ~b.up)
        /\ b.ifAddrs # {} => b.ifRoutes # {}
        /\ b.master # NoArg => (~b.exists /\ b.ifAddrs = {})
        /\ ADDR6 \notin b.ifAddrs}

\* the hosts whose interface has something to migrate: ETH free, with one
\* address and one route or with three addresses and two routes; no bridge, the
\* bridge as ensure_bridge leaves it, or a bridge somebody else made
LbMigrate ==
    {b \in LbStates :
        /\ b.master = NoArg
        /\ b.exists => (b.stp = ~b.up)
        /\ b.ifAddrs # {} /\ b.ifRoutes # {}}

\* s[:n]
Prefix(s, n) == SubSeq(s, 1, IF Len(s) < n THEN Len(s) ELSE n)

NIC_NAME_LEN == 14

\* a get_veth_pair_names that does not cut the names: C15 tells it apart
get_veth_pair_names_whole(vif) ==
    <<(<<"q", "v", "b">> \o vif.id), (<<"q", "v", "o">> \o vif.id)>>

\* OvsHybridPlugin.get_veth_pair_names
get_veth_pair_names(vif) ==
    <<Prefix(<<"q", "v", "b">> \o vif.id, NIC_NAME_LEN),
      Prefix(<<"q", "v", "o">> \o vif.id, NIC_NAME_LEN)>>

\* the veth names of the model's VIF, as the host knows them
V1 == Prefix(<<"q", "v", "b">> \o VIF_ID, NIC_NAME_LEN)
V2 == Prefix(<<"q", "v", "o">> \o VIF_ID, NIC_NAME_LEN)

\* ovs_hybrid.py:38-51, the two options plug and unplug read
network_device_mtu == "1500"
ovs_vsctl_timeout == "120"

\* linux_net.device_exists: os.path.exists('/sys/class/net/<device>')
device_exists(h, device) ==
    IF device = BR THEN h.hy.br
    ELSE IF device \in {V1, V2} THEN h.hy.veth
    ELSE IF device = VLAN_IF THEN h.vlan.exists
    ELSE IF device = LB THEN h.lb.exists
    ELSE device \in {ETH, OTHER_BR}

\* os.path.exists('/proc/sys/net/ipv6/conf/<bridge>/disable_ipv6')
disv6_exists(h, bridge) == h.hy.ipv6 /\ device_exists(h, bridge)

\* vif_plug_ovs.linux_net.device_exists, the probe the hybrid backend calls
ovs_device_exists(h, device) == device_exists(h, device)

(***************************************************************************)
(* Host commands.  A command is its argv.  CmdExit is the exit status the  *)
(* host gives it (0: done; 1: brctl's and ip's own errors, such as a       *)
(* device that does not exist; 2: the kernel refused; 255: ip rejects an   *)
(* argument), CmdEffect what it changes when it is done.                   *)
(***************************************************************************)
Last(q) == q[Len(q)]
Tail3(cmd) == SubSeq(cmd, 4, Len(cmd))        \* the argv after its first three words
Ips(addrs) == {a.ip : a \in addrs}

\* the part of the host a command works on
Target(cmd) ==
    CASE cmd[1] = "brctl" -> IF cmd[3] = BR THEN "hy" ELSE "lb"
      [] cmd[1] = "ip" /\ cmd[2] = "link" /\ cmd[3] = "add" -> "vlan"
      [] cmd[1] = "ip" /\ cmd[2] = "link" /\ cmd[3] = "set" ->
             IF cmd[4] = BR THEN "hy" ELSE IF cmd[4] = VLAN_IF THEN "vlan" ELSE "lb"
      [] cmd[1] = "ip" -> "lb"
      [] OTHER -> "hy"

HyExit(cmd, hy) ==
    CASE cmd[1] = "brctl" /\ cmd[2] = "addbr" -> IF hy.br THEN 1 ELSE 0
      [] cmd[1] = "brctl" /\ cmd[2] \in {"setfd", "stp"} -> IF hy.br THEN 0 ELSE 1
      [] cmd[1] = "brctl" /\ cmd[2] = "addif" ->
             IF hy.br /\ hy.veth /\ ~hy.attached THEN 0 ELSE 1
      [] cmd[1] = "brctl" /\ cmd[2] = "delif" -> IF hy.br /\ hy.attached THEN 0 ELSE 1
      [] cmd[1] = "brctl" /\ cmd[2] = "delbr" -> IF hy.br /\ ~hy.brUp THEN 0 ELSE 1
      [] cmd[1] = "ip" -> IF hy.br THEN 0 ELSE 1
      [] OTHER -> 0

HyEffect(cmd, hy) ==
    CASE cmd[1] = "brctl" /\ cmd[2] = "addbr" -> [hy EXCEPT !.br = TRUE, !.brUp = FALSE]
      [] cmd[1] = "brctl" /\ cmd[2] = "addif" -> [hy EXCEPT !.attached = TRUE]
      [] cmd[1] = "brctl" /\ cmd[2] = "delif" -> [hy EXCEPT !.attached = FALSE]
      [] cmd[1] = "brctl" /\ cmd[2] = "delbr" ->
             [hy EXCEPT !.br = FALSE, !.brUp = FALSE, !.attached = FALSE]
      [] cmd[1] = "ip" -> [hy EXCEPT !.brUp = (cmd[5] = "up")]
      [] cmd[1] = "create_veth_pair" -> [hy EXCEPT !.veth = TRUE]
      [] cmd[1] = "create_ovs_vif_port" -> [hy EXCEPT !.port = TRUE]
      [] cmd[1] = "delete_ovs_vif_port" ->
             [hy EXCEPT !.port = FALSE, !.veth = FALSE, !.attached = FALSE]
      [] OTHER -> hy

VlanExit(cmd, vlan) ==
    CASE cmd[3] = "add" -> IF vlan.exists THEN 2 ELSE 0
      [] cmd[3] = "set" /\ cmd[5] = "mtu" ->
             IF cmd[6] = "None" THEN 255 ELSE IF vlan.exists THEN 0 ELSE 1
      [] OTHER -> IF vlan.exists THEN 0 ELSE 1

VlanEffect(cmd, vlan) ==
    CASE cmd[3] = "add" -> [VlanAbsent EXCEPT !.exists = TRUE]
      [] cmd[3] = "set" /\ cmd[5] = "address" -> [vlan EXCEPT !.mac = cmd[6]]
      [] cmd[3] = "set" /\ cmd[5] = "up" -> [vlan EXCEPT !.up = TRUE]
      [] cmd[3] = "set" /\ cmd[5] = "mtu" -> [vlan EXCEPT !.mtu = cmd[6]]
      [] OTHER -> vlan

LbExit(cmd, lb) ==
    CASE cmd[1] = "brctl" /\ cmd[2] = "addbr" -> IF lb.exists THEN 1 ELSE 0
      [] cmd[1] = "brctl" /\ cmd[2] \in {"setfd", "stp"} -> IF lb.exists THEN 0 ELSE 1
      [] cmd[1] = "brctl" /\ cmd[2] = "addif" ->
             IF lb.exists /\ lb.master = NoArg THEN 0 ELSE 1
      [] cmd[2] = "link" -> IF cmd[4] = LB /\ ~lb.exists THEN 1 ELSE 0
      [] cmd[2] = "route" /\ cmd[3] = "del" ->
             IF Tail3(cmd) \in lb.ifRoutes \cup lb.brRoutes THEN 0 ELSE 2
      [] cmd[2] = "route" /\ cmd[3] = "add" ->
             IF Tail3(cmd) \notin lb.ifRoutes \cup lb.brRoutes
                /\ Inet(lb.ifAddrs \cup lb.brAddrs) # {} THEN 0 ELSE 2
      [] cmd[2] = "addr" /\ cmd[3] = "del" ->
             IF cmd[4] \in Ips(IF Last(cmd) = LB THEN lb.brAddrs ELSE lb.ifAddrs)
             THEN 0 ELSE 2
      [] cmd[2] = "addr" /\ cmd[3] = "add" ->
             IF Last(cmd) = LB /\ ~lb.exists THEN 1
             ELSE IF cmd[4] \in Ips(IF Last(cmd) = LB THEN lb.brAddrs ELSE lb.ifAddrs)
                  THEN 2 ELSE 0
      [] OTHER -> 0

\* a via route stays only while an address makes its gateway reachable
Reachable(lb) ==
    [lb EXCEPT !.ifRoutes = IF Inet(lb.ifAddrs) = {} THEN {} ELSE @,
               !.brRoutes = IF Inet(lb.brAddrs) = {} THEN {} ELSE @]

\* the addresses left by `ip addr del`: with a primary IPv4 address go its
\* secondaries (promote_secondaries is off unless the host turns it on)
AddrDel(addrs, ip) ==
    LET gone == {a \in addrs : a.ip = ip}
    IN  IF \E a \in Inet(gone) : a.flag = "none"
        THEN {a \in addrs \ gone : ~(Family(a.ip) = "inet" /\ a.flag = "secondary")}
        ELSE addrs \ gone

\* the addresses after `ip addr add`: an IPv4 address that joins others of its
\* subnet is a secondary
AddrAdd(addrs, ip) ==
    addrs \cup {[ip |-> ip,
                 flag |-> IF Family(ip) = "inet" /\ Inet(addrs) # {}
                          THEN "secondary" ELSE "none"]}

LbEffect(cmd, lb) ==
    CASE cmd[1] = "brctl" /\ cmd[2] = "addbr" ->
             [lb EXCEPT !.exists = TRUE, !.stp = FALSE, !.up = FALSE]
      [] cmd[1] = "brctl" /\ cmd[2] = "stp" -> [lb EXCEPT !.stp = (cmd[4] = "on")]
      [] cmd[1] = "brctl" /\ cmd[2] = "addif" -> [lb EXCEPT !.master = cmd[3]]
      [] cmd[1] = "ip" /\ cmd[2] = "link" /\ cmd[4] = LB -> [lb EXCEPT !.up = (cmd[5] = "up")]
      [] cmd[1] = "ip" /\ cmd[2] = "route" /\ cmd[3] = "del" ->
             IF Tail3(cmd) \in lb.ifRoutes
             THEN [lb EXCEPT !.ifRoutes = @ \ {Tail3(cmd)}]
             ELSE [lb EXCEPT !.brRoutes = @ \ {Tail3(cmd)}]
      [] cmd[1] = "ip" /\ cmd[2] = "route" /\ cmd[3] = "add" ->
             IF Inet(lb.brAddrs) # {}
             THEN [lb EXCEPT !.brRoutes = @ \cup {Tail3(cmd)}]
             ELSE [lb EXCEPT !.ifRoutes = @ \cup {Tail3(cmd)}]
      [] cmd[1] = "ip" /\ cmd[2] = "addr" /\ cmd[3] = "del" ->
             Reachable(IF Last(cmd) = LB
                       THEN [lb EXCEPT !.brAddrs = AddrDel(@, cmd[4])]
                       ELSE [lb EXCEPT !.ifAddrs = AddrDel(@, cmd[4])])
      [] cmd[1] = "ip" /\ cmd[2] = "addr" /\ cmd[3] = "add" ->
             IF Last(cmd) = LB
             THEN [lb EXCEPT !.brAddrs = AddrAdd(@, cmd[4])]
             ELSE [lb EXCEPT !.ifAddrs = AddrAdd(@, cmd[4])]
      [] OTHER -> lb

CmdExit(cmd, h) ==
    LET part == Target(cmd)
    IN  IF cmd[1] = "brctl" /\ cmd[2] = "addif" /\ ~device_exists(h, cmd[4]) THEN 1
        ELSE IF part = "hy" THEN HyExit(cmd, h.hy)
        ELSE IF part = "vlan" THEN VlanExit(cmd, h.vlan)
        ELSE LbExit(cmd, h.lb)

CmdEffect(cmd, h) ==
    LET part == Target(cmd)
    IN  IF part = "hy" THEN [h EXCEPT !.hy = HyEffect(cmd, h.hy)]
        ELSE IF part = "vlan" THEN [h EXCEPT !.vlan = VlanEffect(cmd, h.vlan)]
        ELSE [h EXCEPT !.lb = LbEffect(cmd, h.lb)]

(***************************************************************************)
(* A call in progress: the host so far, the commands issued so far, the    *)
(* exception that ended it ("none" while it runs), and the iptables        *)
(* manager the call works on.                                              *)
(***************************************************************************)
Begin(h) == [h |-> h, cmds |-> <<>>, err |-> "none", ipt |-> None]

Raise(s, e) == IF s.err # "none" THEN s ELSE [s EXCEPT !.err = e]

\* the exit status of the command about to run: that of a fault when it is
\* command number f of the call, else the host's
ExitStatus(s, cmd, f) == IF Len(s.cmds) + 1 = f THEN 255 ELSE CmdExit(cmd, s.h)

\* processutils.execute(*cmd, check_exit_code=codes): the command changes the
\* host when it exits 0, and ProcessExecutionError is raised when it exits
\* with a status outside `codes`
\* (the call state is bound once, as `s`, however it was computed)
executed(s, cmd, codes, status) ==
    [s EXCEPT !.cmds = Append(@, cmd),
              !.h = IF status = 0 THEN CmdEffect(cmd, s.h) ELSE @,
              !.err = IF status \in codes THEN @ ELSE "ProcessExecutionError"]

execute(call, cmd, codes, f) ==
    CHOOSE after \in
        {IF s.err # "none" THEN s ELSE executed(s, cmd, codes, ExitStatus(s, cmd, f))
         : s \in {call}} : TRUE

\* vif_plug_ovs.linux_net: create_veth_pair, create_ovs_vif_port, delete_ovs_vif_port
create_veth_pair(s, dev1, dev2, mtu, f) ==
    execute(s, <<"create_veth_pair", dev1, dev2, mtu>>, {0}, f)

create_ovs_vif_port(s, bridge, dev, f) ==
    execute(s, <<"create_ovs_vif_port", bridge, dev>>, {0}, f)

delete_ovs_vif_port(s, bridge, dev, f) ==
    execute(s, <<"delete_ovs_vif_port", bridge, dev>>, {0}, f)

(***************************************************************************)
(* vif_plug_ovs/ovs_hybrid.py: the hybrid backend                          *)
(***************************************************************************)
OvsHybridPlugin_describe ==
    [plugin_name |-> "ovs_hybrid",
     vif_info |-> <<[vif_object_name |-> "VIFBridge",
                     min_version |-> "1.0", max_version |-> "1.0"]>>]

\* a validation that only looks for the attribute: C7 tells it apart
check_port_profile_hasattr(s, vif) ==
    IF vif.port_profile = "missing" THEN Raise(s, "MissingPortProfile")
    ELSE s

\* the port-profile validation both plug and unplug start with
check_port_profile(s, vif) ==
    IF vif.port_profile = "missing" THEN Raise(s, "MissingPortProfile")
    ELSE IF vif.port_profile # "VIFPortProfileOpenVSwitch" THEN Raise(s, "WrongPortProfile")
    ELSE s

\* the block of plug run when the per-VIF bridge does not exist
plug_create_bridge(s, vif, f) ==
    LET a == execute(s, <<"brctl", "addbr", vif.bridge_name>>, {0}, f)
        b == execute(a, <<"brctl", "setfd", vif.bridge_name, "0">>, {0}, f)
        c == execute(b, <<"brctl", "stp", vif.bridge_name, "off">>, {0}, f)
        d == execute(c, <<"tee", "multicast_snooping", vif.bridge_name, "0">>, {0, 1}, f)
    IN  IF d.err = "none" /\ disv6_exists(d.h, vif.bridge_name)
        THEN execute(d, <<"tee", "disable_ipv6", vif.bridge_name, "1">>, {0, 1}, f)
        ELSE d

\* the block of plug run when the OVS-side veth end does not exist
plug_create_veth(s, vif, v1_name, v2_name, f) ==
    LET a == create_veth_pair(s, v1_name, v2_name, network_device_mtu, f)
        b == execute(a, <<"ip", "link", "set", vif.bridge_name, "up">>, {0}, f)
        c == execute(b, <<"brctl", "addif", vif.bridge_name, v1_name>>, {0}, f)
    IN  create_ovs_vif_port(c, vif.network_bridge, v2_name, f)

OvsHybridPlugin_plug(h, vif, f) ==
    LET v1_name == get_veth_pair_names(vif)[1]
        v2_name == get_veth_pair_names(vif)[2]
        s0 == check_port_profile(Begin(h), vif)
        s1 == IF s0.err = "none" /\ ~ovs_device_exists(s0.h, vif.bridge_name)
              THEN plug_create_bridge(s0, vif, f) ELSE s0
    IN  IF s1.err = "none" /\ ~ovs_device_exists(s1.h, v2_name)
        THEN plug_create_veth(s1, vif, v1_name, v2_name, f) ELSE s1

\* the block of unplug run when the per-VIF bridge exists
unplug_delete_bridge(s, vif, v1_name, f) ==
    LET a == execute(s, <<"brctl", "delif", vif.bridge_name, v1_name>>, {0}, f)
        b == execute(a, <<"ip", "link", "set", vif.bridge_name, "down">>, {0}, f)
    IN  execute(b, <<"brctl", "delbr", vif.bridge_name>>, {0}, f)

\* an unplug that returns at once when the bridge is gone: C11 tells it apart
OvsHybridPlugin_unplug_bridge_only(h, vif, f) ==
    LET v1_name == get_veth_pair_names(vif)[1]
        v2_name == get_veth_pair_names(vif)[2]
        s0 == check_port_profile(Begin(h), vif)
    IN  IF s0.err = "none" /\ ovs_device_exists(s0.h, vif.bridge_name)
        THEN delete_ovs_vif_port(unplug_delete_bridge(s0, vif, v1_name, f),
                                 vif.network_bridge, v2_name, f)
        ELSE s0

OvsHybridPlugin_unplug(h, vif, f) ==
    LET v1_name == get_veth_pair_names(vif)[1]
        v2_name == get_veth_pair_names(vif)[2]
        s0 == check_port_profile(Begin(h), vif)
        s1 == IF s0.err = "none" /\ ovs_device_exists(s0.h, vif.bridge_name)
              THEN unplug_delete_bridge(s0, vif, v1_name, f) ELSE s0
    IN  delete_ovs_vif_port(s1, vif.network_bridge, v2_name, f)

(***************************************************************************)
(* The backends behind the registry.  ovs_hybrid is the class above; the   *)
(* class of linux_bridge is outside src/: it returns, or raises `bo`.      *)
(***************************************************************************)
LinuxBridgePlugin_call(h, bo) == Raise(Begin(h), bo)

LinuxBridgePlugin_describe ==
    [plugin_name |-> "linux_bridge",
     vif_info |-> <<[vif_object_name |-> "VIFBridge",
                     min_version |-> "1.0", max_version |-> "1.0"]>>]

backend_plug(name, h, vif, f, bo) ==
    IF name = "ovs_hybrid" THEN OvsHybridPlugin_plug(h, vif, f)
    ELSE LinuxBridgePlugin_call(h, bo)

backend_unplug(name, h, vif, f, bo) ==
    IF name = "ovs_hybrid" THEN OvsHybridPlugin_unplug(h, vif, f)
    ELSE LinuxBridgePlugin_call(h, bo)

backend_describe(name) ==
    IF name = "ovs_hybrid" THEN OvsHybridPlugin_describe ELSE LinuxBridgePlugin_describe

(***************************************************************************)
(* os_vif/__init__.py: the registry and the dispatcher.                    *)
(* The extension manager: names(), the discovered names in iteration       *)
(* order, and for each name the .obj of its extension; 0 is Python's None  *)
(* (invoke_on_load=False), a positive number is an instance.               *)
(***************************************************************************)
Range(q) == {q[i] : i \in DOMAIN q}
IndexOf(q, x) == CHOOSE i \in DOMAIN q : q[i] = x

\* What a call leaves for its caller to see: the outcome `res` ("ok" or the
\* exception raised), the exception's payload, the backend methods invoked,
\* the host commands issued, and the value returned.
NoCall == [op |-> "none", args |-> <<>>, res |-> "none", err |-> "none",
           carried |-> <<>>, invoked |-> <<>>, cmds |-> <<>>, value |-> <<>>,
           repeat |-> FALSE]

\* the calls that ensure a state: ensure_vlan, ensure_bridge, the hybrid plug
IsEnsure(call) ==
    \/ call.op \in {"ensure_vlan", "ensure_bridge"}
    \/ call.op = "plug" /\ call.args[1].plugin = "ovs_hybrid"

\* the call, marked when it comes right after a call of the same entry point
\* with the same arguments that returned
Observed(prev, call) ==
    [call EXCEPT !.repeat = /\ IsEnsure(call)
                            /\ prev.op = call.op
                            /\ prev.args = call.args
                            /\ prev.res = "ok"]

\* an initialize that discovers and loads on every call: C5 tells it apart
initialize_every_call(mgr, n, reset, names, failAt) ==
    LET k == IF failAt \in 1..Len(names) THEN failAt - 1 ELSE Len(names)
        obj == [nm \in Range(names) |->
                   IF IndexOf(names, nm) <= k THEN n + IndexOf(names, nm) ELSE 0]
    IN  [mgr |-> <<[names |-> names, obj |-> obj]>>,
         n |-> n + k,
         register_all |-> (k = Len(names)),
         last |-> [NoCall EXCEPT !.op = "initialize", !.args = <<reset>>,
                      !.res = IF k = Len(names) THEN "ok" ELSE "LoadError",
                      !.invoked = [i \in 1..k |-> <<n + i, "load">>],
                      !.value = [discovered |-> TRUE]]]

\* initialize(reset): the load of extension number failAt raises (0: none does)
initialize(mgr, n, reset, names, failAt) ==
    IF reset \/ mgr = None
    THEN LET k == IF failAt \in 1..Len(names) THEN failAt - 1 ELSE Len(names)
             obj == [nm \in Range(names) |->
                        IF IndexOf(names, nm) <= k THEN n + IndexOf(names, nm) ELSE 0]
         IN  [mgr |-> <<[names |-> names, obj |-> obj]>>,
              n |-> n + k,
              register_all |-> (k = Len(names)),
              last |-> [NoCall EXCEPT !.op = "initialize", !.args = <<reset>>,
                           !.res = IF k = Len(names) THEN "ok" ELSE "LoadError",
                           !.invoked = [i \in 1..k |-> <<n + i, "load">>],
                           !.value = [discovered |-> TRUE]]]
    ELSE [mgr |-> mgr, n |-> n, register_all |-> FALSE,
          last |-> [NoCall EXCEPT !.op = "initialize", !.args = <<reset>>,
                       !.res = "ok", !.value = [discovered |-> FALSE]]]

\* a try block that lets the backend's exception through: C1 tells it apart
wrap_reraise(op, exc, vif, plugin, s) ==
    [h |-> s.h,
     last |-> [NoCall EXCEPT !.op = op, !.args = <<vif>>,
                  !.res = IF s.err = "none" THEN "ok" ELSE s.err,
                  !.err = s.err,
                  !.invoked = IF plugin = 0 THEN <<>> ELSE <<<<plugin, op>>>>,
                  !.cmds = s.cmds]]

\* the try block of plug and unplug, given what the backend call did:
\* success, or the dispatcher's exception wrapping the backend's
wrap(op, exc, vif, plugin, s) ==
    [h |-> s.h,
     last |-> [NoCall EXCEPT !.op = op, !.args = <<vif>>,
                  !.res = IF s.err = "none" THEN "ok" ELSE exc,
                  !.err = s.err,
                  !.carried = IF s.err = "none" THEN <<>> ELSE <<vif, s.err>>,
                  !.invoked = IF plugin = 0 THEN <<>> ELSE <<<<plugin, op>>>>,
                  !.cmds = s.cmds]]

\* checks that look the name up before the registry: C2 tells them apart
lookup_name_first(op, mgr, h, vif) ==
    IF mgr = None /\ vif.plugin \in Installed
    THEN [h |-> h, last |-> [NoCall EXCEPT !.op = op, !.args = <<vif>>,
                                !.res = "LibraryNotInitialized"]]
    ELSE [h |-> h, last |-> [NoCall EXCEPT !.op = op, !.args = <<vif>>,
                                !.res = "NoMatchingPlugin",
                                !.carried = <<vif.plugin>>]]

\* the checks plug, unplug and host_info start with
lookup(op, mgr, h, vif) ==
    IF mgr = None
    THEN [h |-> h, last |-> [NoCall EXCEPT !.op = op, !.args = <<vif>>,
                                !.res = "LibraryNotInitialized"]]
    ELSE [h |-> h, last |-> [NoCall EXCEPT !.op = op, !.args = <<vif>>,
                                !.res = "NoMatchingPlugin",
                                !.carried = <<vif.plugin>>]]

plug(mgr, h, vif, f, bo) ==
    IF mgr = None \/ vif.plugin \notin DOMAIN mgr[1].obj
    THEN lookup("plug", mgr, h, vif)
    ELSE LET plugin == mgr[1].obj[vif.plugin]
         IN  wrap("plug", "PlugException", vif, plugin,
                  IF plugin = 0 THEN Raise(Begin(h), "AttributeError")
                  ELSE backend_plug(vif.plugin, h, vif, f, bo))

\* an unplug whose try block also covers the lookup: C3 tells it apart
unplug_lookup_in_try(mgr, h, vif, f, bo) ==
    IF mgr = None
    THEN lookup("unplug", mgr, h, vif)
    ELSE IF vif.plugin \notin DOMAIN mgr[1].obj
    THEN wrap("unplug", "UnplugException", vif, 0, Raise(Begin(h), "KeyError"))
    ELSE LET plugin == mgr[1].obj[vif.plugin]
         IN  wrap("unplug", "UnplugException", vif, plugin,
                  IF plugin = 0 THEN Raise(Begin(h), "AttributeError")
                  ELSE backend_unplug(vif.plugin, h, vif, f, bo))

unplug(mgr, h, vif, f, bo) ==
    IF mgr = None \/ vif.plugin \notin DOMAIN mgr[1].obj
    THEN lookup("unplug", mgr, h, vif)
    ELSE LET plugin == mgr[1].obj[vif.plugin]
         IN  wrap("unplug", "UnplugException", vif, plugin,
                  IF plugin = 0 THEN Raise(Begin(h), "AttributeError")
                  ELSE backend_unplug(vif.plugin, h, vif, f, bo))

\* host_info(): describe() number dfail raises, when it is a describe() that can
host_info(mgr, dfail) ==
    IF mgr = None
    THEN [NoCall EXCEPT !.op = "host_info", !.res = "LibraryNotInitialized"]
    ELSE LET names == mgr[1].names
             obj == mgr[1].obj
             Fails(i) == \/ obj[names[i]] = 0
                         \/ i = dfail /\ names[i] # "ovs_hybrid"
             bad == {i \in 1..Len(names) : Fails(i)}
             stop == IF bad = {} THEN Len(names) + 1
                     ELSE CHOOSE i \in bad : \A j \in bad : i <= j
             called == IF stop <= Len(names) /\ obj[names[stop]] # 0
                       THEN stop ELSE stop - 1
         IN  [NoCall EXCEPT !.op = "host_info",
                 !.res = IF stop > Len(names) THEN "ok"
                         ELSE IF obj[names[stop]] = 0 THEN "AttributeError"
                         ELSE "DescribeError",
                 !.invoked = [i \in 1..called |-> <<obj[names[i]], "describe">>],
                 !.value = IF stop > Len(names)
                           THEN [i \in 1..Len(names) |-> backend_describe(names[i])]
                           ELSE <<>>]

(***************************************************************************)
(* vif_plug_linux_bridge/linux_net.py                                      *)
(***************************************************************************)
RECURSIVE SetToSeq(_)
SetToSeq(S) == IF S = {} THEN <<>>
               ELSE LET x == CHOOSE y \in S : TRUE IN <<x>> \o SetToSeq(S \ {x})

\* stdout of `ip route show dev <interface>`, split into lines and fields: the
\* via routes, the connected route of an address, and the empty last line
RouteLines(h, interface) ==
    SetToSeq(h.lb.ifRoutes)
    \o (IF Inet(h.lb.ifAddrs) = {} THEN <<>>
        ELSE << <<"10.0.0.0/24", "proto", "kernel", "scope", "link">> >>)
    \o << <<>> >>

\* stdout of `ip addr show dev <interface> scope global`, likewise: the IPv4
\* addresses, primaries first, then the IPv6 ones, whose lines do not end with
\* the interface's label
AddrLine(a, interface) ==
    IF Family(a.ip) = "inet6" THEN <<"inet6", a.ip, "scope", "global">>
    ELSE <<"inet", a.ip, "brd", "10.0.0.255", "scope", "global">>
         \o (IF a.flag = "none" THEN <<>> ELSE <<a.flag>>) \o <<interface>>
AddrLines(h, interface) ==
    LET addrs == SetToSeq({a \in Inet(h.lb.ifAddrs) : a.flag = "none"})
                 \o SetToSeq({a \in Inet(h.lb.ifAddrs) : a.flag # "none"})
                 \o SetToSeq(h.lb.ifAddrs \ Inet(h.lb.ifAddrs))
    IN  [i \in 1..Len(addrs) |-> AddrLine(addrs[i], interface)] \o << <<>> >>

\* stderr of `brctl addif <bridge> <interface>` run as command number
\* Len(s.cmds) + 1 of the call; empty when it succeeds
AddifStderr(s, bridge, interface, f) ==
    IF Len(s.cmds) + 1 = f THEN <<"fault">>
    ELSE IF ~device_exists(s.h, bridge) THEN <<"bridge ", bridge, " does not exist!\n">>
    ELSE IF ~device_exists(s.h, interface)
         THEN <<"interface ", interface, " does not exist!\n">>
    ELSE IF s.h.lb.master # NoArg
         THEN <<"device ", interface, " is already a member of a bridge; ",
                "can't enslave it to bridge ", bridge, ".\n">>
    ELSE <<>>

AnyExit == 0..255     \* check_exit_code=False

_set_device_mtu(s, dev, mtu, f) ==
    execute(s, <<"ip", "link", "set", dev, "mtu", mtu>>, {0, 2, 254}, f)

_ip_bridge_cmd(action, params, device) ==
    <<"ip", "addr", action>> \o params \o <<"dev", device>>

\* a creation block that sets the MAC once the link is up: C16 tells it apart
vlan_create_mac_last(s, interface, vlan_num, bridge_interface, mac_address, f) ==
    LET a == execute(s, <<"ip", "link", "add", "link", bridge_interface, "name",
                          interface, "type", "vlan", "id", vlan_num>>, {0, 2, 254}, f)
        b == execute(a, <<"ip", "link", "set", interface, "up">>, {0, 2, 254}, f)
    IN  IF mac_address # NoArg
        THEN execute(b, <<"ip", "link", "set", interface, "address", mac_address>>,
                     {0, 2, 254}, f)
        ELSE b

\* the block of ensure_vlan run when the vlan interface does not exist
vlan_create(s, interface, vlan_num, bridge_interface, mac_address, f) ==
    LET a == execute(s, <<"ip", "link", "add", "link", bridge_interface, "name",
                          interface, "type", "vlan", "id", vlan_num>>, {0, 2, 254}, f)
        b == IF mac_address # NoArg
             THEN execute(a, <<"ip", "link", "set", interface, "address", mac_address>>,
                          {0, 2, 254}, f)
             ELSE a
    IN  execute(b, <<"ip", "link", "set", interface, "up">>, {0, 2, 254}, f)

\* an ensure_vlan without the existence check: C10 tells it apart
ensure_vlan_unguarded(h, vlan_num, bridge_interface, mac_address, mtu, f) ==
    LET interface == <<"v", "l", "a", "n">> \o vlan_num
        s1 == vlan_create(Begin(h), interface, vlan_num, bridge_interface, mac_address, f)
    IN  [call |-> _set_device_mtu(s1, interface, mtu, f), value |-> interface]

ensure_vlan(h, vlan_num, bridge_interface, mac_address, mtu, f) ==
    LET interface == <<"v", "l", "a", "n">> \o vlan_num
        s0 == Begin(h)
        s1 == IF ~device_exists(s0.h, interface)
              THEN vlan_create(s0, interface, vlan_num, bridge_interface, mac_address, f)
              ELSE s0
    IN  [call |-> _set_device_mtu(s1, interface, mtu, f), value |-> interface]

\* the block of ensure_bridge run when the bridge does not exist
bridge_create(s, bridge, f) ==
    LET a == execute(s, <<"brctl", "addbr", bridge>>, {0}, f)
        b == execute(a, <<"brctl", "setfd", bridge, "0">>, {0}, f)
        c == execute(b, <<"brctl", "stp", bridge, "off">>, {0}, f)
    IN  execute(c, <<"ip", "link", "set", bridge, "up">>, {0}, f)

\* for line in out.split('\n'): delete the routes that have 'via'
RECURSIVE route_del(_, _, _)
route_del(s, lines, f) ==
    IF lines = <<>> \/ s.err # "none" THEN s
    ELSE LET fields == Head(lines)
         IN  route_del(IF fields # <<>> /\ "via" \in Range(fields)
                       THEN execute(s, <<"ip", "route", "del">> \o fields, {0}, f)
                       ELSE s,
                       Tail(lines), f)

\* old_routes, as the loop above collects it
old_routes_of(lines) == SelectSeq(lines, LAMBDA fields : fields # <<>> /\ "via" \in Range(fields))

\* for line in out.split('\n'): move the inet addresses to the bridge
RECURSIVE addr_move(_, _, _, _)
addr_move(s, lines, bridge, f) ==
    IF lines = <<>> \/ s.err # "none" THEN s
    ELSE LET fields == Head(lines)
             n == Len(fields)
             params == IF fields[n - 1] \in {"secondary", "dynamic"}
                       THEN SubSeq(fields, 2, n - 2) ELSE SubSeq(fields, 2, n - 1)
         IN  addr_move(IF fields # <<>> /\ fields[1] = "inet"
                       THEN execute(execute(s, _ip_bridge_cmd("del", params, fields[n]),
                                            {0, 2, 254}, f),
                                    _ip_bridge_cmd("add", params, bridge), {0, 2, 254}, f)
                       ELSE s,
                       Tail(lines), bridge, f)

\* for fields in old_routes: add the route again
RECURSIVE route_add(_, _, _)
route_add(s, old_routes, f) ==
    IF old_routes = <<>> \/ s.err # "none" THEN s
    ELSE route_add(execute(s, <<"ip", "route", "add">> \o Head(old_routes), {0}, f),
                   Tail(old_routes), f)

\* an attach block that adds the routes again before it moves the addresses:
\* C17 tells it apart
bridge_attach_routes_first(s, bridge, interface, f) ==
    LET err == AddifStderr(s, bridge, interface, f)
        a == execute(s, <<"brctl", "addif", bridge, interface>>, AnyExit, f)
        b == IF err # <<>> /\ err # <<"device ", interface, " is already a member of a bridge; ",
                                      "can't enslave it to bridge ", bridge, ".\n">>
             THEN Raise(a, "Exception") ELSE a
        c == execute(b, <<"ip", "link", "set", interface, "up">>, AnyExit, f)
        d == execute(c, <<"ip", "route", "show", "dev", interface>>, {0}, f)
        routes == RouteLines(c.h, interface)
        e == route_del(d, routes, f)
        g == execute(e, <<"ip", "addr", "show", "dev", interface, "scope", "global">>, {0}, f)
        k == route_add(g, old_routes_of(routes), f)
    IN  addr_move(k, AddrLines(e.h, interface), bridge, f)

\* the block of ensure_bridge run when an interface is given
bridge_attach(s, bridge, interface, f) ==
    LET err == AddifStderr(s, bridge, interface, f)
        a == execute(s, <<"brctl", "addif", bridge, interface>>, AnyExit, f)
        b == IF err # <<>> /\ err # <<"device ", interface, " is already a member of a bridge; ",
                                      "can't enslave it to bridge ", bridge, ".\n">>
             THEN Raise(a, "Exception") ELSE a
        c == execute(b, <<"ip", "link", "set", interface, "up">>, AnyExit, f)
        d == execute(c, <<"ip", "route", "show", "dev", interface>>, {0}, f)
        routes == RouteLines(c.h, interface)
        e == route_del(d, routes, f)
        g == execute(e, <<"ip", "addr", "show", "dev", interface, "scope", "global">>, {0}, f)
        k == addr_move(g, AddrLines(e.h, interface), bridge, f)
    IN  route_add(k, old_routes_of(routes), f)

\* the filtering collaborator: the rules of a gateway bridge, add_rule, apply
iptables_drop_action == "DROP"
get_gateway_rules(bridge) ==
    << <<"FORWARD", <<"--in-interface ", bridge, " -j ", "ACCEPT">> >>,
       <<"FORWARD", <<"--out-interface ", bridge, " -j ", "ACCEPT">> >> >>

add_rule(s, chain, rule) ==
    IF s.err # "none" THEN s
    ELSE [s EXCEPT !.ipt = << [@[1] EXCEPT !.rules = @ \cup {<<chain, rule>>}] >>,
                   !.cmds = Append(@, <<"add_rule", chain, rule>>)]

RECURSIVE add_rules(_, _)
add_rules(s, rules) ==
    IF rules = <<>> THEN s
    ELSE add_rules(add_rule(s, Head(rules)[1], Head(rules)[2]), Tail(rules))

apply(s, f) ==
    IF s.err # "none" THEN s
    ELSE IF Len(s.cmds) + 1 = f
         THEN Raise([s EXCEPT !.cmds = Append(@, <<"apply">>)], "ProcessExecutionError")
         ELSE [s EXCEPT !.ipt = << [@[1] EXCEPT !.applied = s.ipt[1].rules] >>,
                        !.cmds = Append(@, <<"apply">>)]

\* a filtering block that takes no notice of gateway: C20 tells it apart
bridge_filter_drop_always(s, bridge, gateway, f) ==
    IF s.err # "none" THEN s
    ELSE IF s.ipt = None THEN Raise(s, "AttributeError")
    ELSE apply(add_rule(add_rule(s, "FORWARD", <<"--in-interface ", bridge, " -j ",
                                                 iptables_drop_action>>),
                        "FORWARD", <<"--out-interface ", bridge, " -j ",
                                     iptables_drop_action>>),
               f)

\* the block of ensure_bridge run when filtering is asked for
bridge_filter(s, bridge, gateway, f) ==
    IF s.err # "none" THEN s
    ELSE IF s.ipt = None THEN Raise(s, "AttributeError")
    ELSE apply(IF gateway THEN add_rules(s, get_gateway_rules(bridge))
               ELSE add_rule(add_rule(s, "FORWARD", <<"--in-interface ", bridge, " -j ",
                                                       iptables_drop_action>>),
                             "FORWARD", <<"--out-interface ", bridge, " -j ",
                                          iptables_drop_action>>),
               f)

ensure_bridge(h, ipt, bridge, interface, gateway, filtering, f) ==
    LET s0 == [Begin(h) EXCEPT !.ipt = ipt]
        s1 == IF ~device_exists(s0.h, bridge) THEN bridge_create(s0, bridge, f) ELSE s0
        s2 == IF s1.err = "none" /\ interface # NoArg
              THEN bridge_attach(s1, bridge, interface, f) ELSE s1
    IN  IF filtering THEN bridge_filter(s2, bridge, gateway, f) ELSE s2

\* configure(iptables_mgr), with a manager that holds no rule yet
configure == << [rules |-> {}, applied |-> {}] >>

(***************************************************************************)
(* The actions: one per entry point                                        *)
(***************************************************************************)
(* Concurrent callers of linux_net.  @lockutils.synchronized(name,         *)
(* external=True) lets one caller at a time, of all the callers on the     *)
(* host, into the function it decorates, and frees the lock when the       *)
(* function returns or raises.                                             *)
(***************************************************************************)
LockNames == {"nova-lock_vlan", "nova-lock_bridge"}
Nobody == "nobody"
Callers == {"c1", "c2"}
Ops == {"ensure_vlan", "ensure_bridge", "ensure_vlan_bridge"}

\* the lock a function is decorated with
LockOf(fn) == IF fn = "ensure_vlan" THEN "nova-lock_vlan" ELSE "nova-lock_bridge"

\* a lock that lets everybody in: C12 tells it apart
synchronized_open(locks, name) == TRUE

synchronized_free(locks, name) == locks[name] = Nobody
synchronized_enter(locks, name, t) == [locks EXCEPT ![name] = t]

\* a lock that stays held when the function raises: C13 tells it apart
synchronized_exit_on_return(locks, name, err) ==
    IF err = "none" THEN [locks EXCEPT ![name] = Nobody] ELSE locks

synchronized_exit(locks, name, err) == [locks EXCEPT ![name] = Nobody]

\* ensure_vlan_bridge: ensure_vlan, then ensure_bridge on the interface it
\* returned; the function a call starts in and the one it goes on with
FirstFn(op) == IF op = "ensure_bridge" THEN "ensure_bridge" ELSE "ensure_vlan"
ensure_vlan_bridge(op, fn, err) ==
    IF op = "ensure_vlan_bridge" /\ fn = "ensure_vlan" /\ err = "none"
    THEN "ensure_bridge" ELSE "none"

\* a caller that is in no call, and one that starts a call
Returned == [op |-> "none", mtu |-> "None", fn |-> "none", pc |-> "done",
             absent |-> FALSE, cmds |-> <<>>, err |-> "none"]
Started(op, mtu) == [Returned EXCEPT !.op = op, !.mtu = mtu, !.fn = FirstFn(op),
                                     !.pc = "acquire"]

(***************************************************************************)
\* what the backend outside src/ may do in a call
OutcomesOf(vif) == IF vif.plugin = "linux_bridge" THEN BackendOutcomes ELSE {"none"}

Initialize ==
    /\ scope = "os_vif"
    /\ \E reset \in BOOLEAN, names \in Discoveries, failAt \in 0..Cardinality(Installed) :
         /\ (reset \/ EXT_MANAGER = None) => nextInst + Len(names) <= MaxInst
         /\ \E r \in {initialize(EXT_MANAGER, nextInst, reset, names, failAt)} :
                /\ EXT_MANAGER' = r.mgr
                /\ nextInst' = r.n
                /\ registered' = (registered \/ r.register_all)
                /\ last' = r.last
    /\ UNCHANGED <<IPTABLES_MANAGER, scope, host, lock, caller>>

Plug ==
    /\ scope = "os_vif"
    /\ \E vif \in VIFs :
       \E bo \in OutcomesOf(vif), f \in Faults(plug(EXT_MANAGER, host, vif, 0, "none").last.cmds) :
         \E r \in {plug(EXT_MANAGER, host, vif, f, bo)} :
             host' = r.h /\ last' = Observed(last, r.last)
    /\ UNCHANGED <<EXT_MANAGER, nextInst, registered, IPTABLES_MANAGER, scope, lock, caller>>

Unplug ==
    /\ scope = "os_vif"
    /\ \E vif \in VIFs :
       \E bo \in OutcomesOf(vif), f \in Faults(unplug(EXT_MANAGER, host, vif, 0, "none").last.cmds) :
         \E r \in {unplug(EXT_MANAGER, host, vif, f, bo)} :
             host' = r.h /\ last' = Observed(last, r.last)
    /\ UNCHANGED <<EXT_MANAGER, nextInst, registered, IPTABLES_MANAGER, scope, lock, caller>>

HostInfo ==
    /\ scope = "os_vif"
    /\ \E dfail \in 0..Cardinality(Installed) : last' = host_info(EXT_MANAGER, dfail)
    /\ UNCHANGED <<EXT_MANAGER, nextInst, registered, IPTABLES_MANAGER, scope, host, lock, caller>>

EnsureVlan ==
    /\ scope = "ensure_vlan"
    /\ \E mac_address \in {NoArg, MAC1}, mtu \in {"None", "1450"} :
       \E f \in Faults(ensure_vlan(host, VLAN_NUM, ETH, mac_address, mtu, 0).call.cmds) :
         \E r \in {ensure_vlan(host, VLAN_NUM, ETH, mac_address, mtu, f)} :
             /\ host' = r.call.h
             /\ last' = Observed(last,
                            [NoCall EXCEPT !.op = "ensure_vlan",
                                !.args = <<VLAN_NUM, ETH, mac_address, mtu>>,
                                !.res = IF r.call.err = "none" THEN "ok" ELSE r.call.err,
                                !.cmds = r.call.cmds,
                                !.value = IF r.call.err = "none" THEN r.value ELSE <<>>])
    /\ UNCHANGED <<EXT_MANAGER, nextInst, registered, IPTABLES_MANAGER, scope, lock, caller>>

EnsureBridge ==
    /\ scope \in {"ensure_bridge", "migration"}
    /\ \E interface \in IF scope = "migration" THEN {ETH} ELSE {NoArg, ETH},
          filtering \in IF scope = "migration" THEN {FALSE} ELSE BOOLEAN :
       \E gateway \in IF filtering THEN BOOLEAN ELSE {TRUE} :
       \E f \in Faults(ensure_bridge(host, IPTABLES_MANAGER, LB, interface, gateway,
                                     filtering, 0).cmds) :
         \E s \in {ensure_bridge(host, IPTABLES_MANAGER, LB, interface, gateway, filtering, f)} :
             /\ host' = s.h
             /\ IPTABLES_MANAGER' = s.ipt
             /\ last' = Observed(last,
                            [NoCall EXCEPT !.op = "ensure_bridge",
                                !.args = <<LB, interface, gateway, filtering>>,
                                !.res = IF s.err = "none" THEN "ok" ELSE s.err,
                                !.cmds = s.cmds])
    /\ UNCHANGED <<EXT_MANAGER, nextInst, registered, scope, lock, caller>>

Configure ==
    /\ scope = "ensure_bridge"
    /\ IPTABLES_MANAGER' = configure
    /\ last' = [NoCall EXCEPT !.op = "configure", !.res = "ok"]
    /\ UNCHANGED <<EXT_MANAGER, nextInst, registered, scope, host, lock, caller>>

Init ==
    /\ EXT_MANAGER = None
    /\ nextInst = 0
    /\ registered = FALSE
    /\ IPTABLES_MANAGER = None
    /\ scope \in {"os_vif", "ensure_vlan", "ensure_bridge"}
    /\ host \in [hy : HyStates, vlan : VlanStates, lb : LbStates]
    /\ scope # "os_vif" => host.hy = HyFresh
    /\ scope = "os_vif" => ~host.hy.br /\ ~host.hy.veth /\ ~host.hy.port
    /\ scope # "ensure_vlan" => host.vlan = VlanAbsent
    /\ host.lb \in IF scope = "ensure_bridge" THEN LbFound ELSE {LbFresh}
    /\ last = NoCall
    /\ lock = [name \in LockNames |-> Nobody]
    /\ caller = [t \in Callers |-> Returned]

Next == Initialize \/ Plug \/ Unplug \/ HostInfo \/ EnsureVlan \/ EnsureBridge \/ Configure

Spec == Init /\ [][Next]_vars

(***************************************************************************)
(* The same functions, called by several callers at once.  A caller takes  *)
(* the lock of the function, probes, runs the block that creates the       *)
(* device, then the blocks run on every call, and frees the lock; another  *)
(* caller may run between any two of these steps.                          *)
(***************************************************************************)
\* the call state a block of caller t starts from, and the faults it may meet
At(t) == [h |-> host, cmds |-> caller[t].cmds, err |-> "none", ipt |-> IPTABLES_MANAGER]
BlockFaults(t, block) == {0} \cup ((Len(caller[t].cmds) + 1)..Len(block.cmds))

Ran(t, r, nextpc) ==
    /\ host' = r.h
    /\ IPTABLES_MANAGER' = r.ipt
    /\ caller' = [caller EXCEPT ![t].cmds = r.cmds, ![t].err = r.err,
                                ![t].pc = IF r.err = "none" THEN nextpc ELSE "release"]
    /\ UNCHANGED <<EXT_MANAGER, nextInst, registered, scope, last, lock>>

LockAcquire(t) ==
    /\ caller[t].pc = "acquire"
    /\ synchronized_free(lock, LockOf(caller[t].fn))
    /\ lock' = synchronized_enter(lock, LockOf(caller[t].fn), t)
    /\ caller' = [caller EXCEPT ![t].pc = "probe"]
    /\ UNCHANGED <<EXT_MANAGER, nextInst, registered, IPTABLES_MANAGER, scope, host, last>>

Probe(t) ==
    /\ caller[t].pc = "probe"
    /\ LET vlan == caller[t].fn = "ensure_vlan"
           absent == ~device_exists(host, IF vlan THEN VLAN_IF ELSE LB)
       IN  caller' = [caller EXCEPT ![t].absent = absent,
                                    ![t].pc = IF absent THEN "create"
                                              ELSE IF vlan THEN "mtu" ELSE "attach"]
    /\ UNCHANGED <<EXT_MANAGER, nextInst, registered, IPTABLES_MANAGER, scope, host, last,
                   lock>>

CreateBlock(t) ==
    /\ caller[t].pc = "create"
    /\ IF caller[t].fn = "ensure_vlan"
       THEN \E f \in BlockFaults(t, vlan_create(At(t), VLAN_IF, VLAN_NUM, ETH, MAC1, 0)) :
            \E r \in {vlan_create(At(t), VLAN_IF, VLAN_NUM, ETH, MAC1, f)} : Ran(t, r, "mtu")
       ELSE \E f \in BlockFaults(t, bridge_create(At(t), LB, 0)) :
            \E r \in {bridge_create(At(t), LB, f)} : Ran(t, r, "attach")

SetMtu(t) ==
    /\ caller[t].pc = "mtu"
    /\ \E f \in BlockFaults(t, _set_device_mtu(At(t), VLAN_IF, caller[t].mtu, 0)) :
       \E r \in {_set_device_mtu(At(t), VLAN_IF, caller[t].mtu, f)} : Ran(t, r, "release")

AttachBlock(t) ==
    /\ caller[t].pc = "attach"
    /\ \E f \in BlockFaults(t, bridge_attach(At(t), LB, VLAN_IF, 0)) :
       \E r \in {bridge_attach(At(t), LB, VLAN_IF, f)} : Ran(t, r, "filter")

FilterBlock(t) ==
    /\ caller[t].pc = "filter"
    /\ \E f \in BlockFaults(t, bridge_filter(At(t), LB, TRUE, 0)) :
       \E r \in {bridge_filter(At(t), LB, TRUE, f)} : Ran(t, r, "release")

LockRelease(t) ==
    /\ caller[t].pc = "release"
    /\ lock' = synchronized_exit(lock, LockOf(caller[t].fn), caller[t].err)
    /\ LET fn == ensure_vlan_bridge(caller[t].op, caller[t].fn, caller[t].err)
       IN  caller' = [caller EXCEPT ![t].fn = fn,
                                    ![t].pc = IF fn = "none" THEN "done" ELSE "acquire"]
    /\ UNCHANGED <<EXT_MANAGER, nextInst, registered, IPTABLES_MANAGER, scope, host, last>>

Step(t) ==
    \/ LockAcquire(t) \/ Probe(t) \/ CreateBlock(t) \/ SetMtu(t)
    \/ AttachBlock(t) \/ FilterBlock(t) \/ LockRelease(t)

\* every caller starts one call, on a host that has neither device, with the
\* filtering collaborator configured
InitLocks ==
    /\ EXT_MANAGER = None
    /\ nextInst = 0
    /\ registered = FALSE
    /\ IPTABLES_MANAGER = configure
    /\ scope = "concurrent"
    /\ host = [hy |-> HyFresh, vlan |-> VlanAbsent, lb |-> LbFresh]
    /\ last = NoCall
    /\ lock = [name \in LockNames |-> Nobody]
    /\ caller \in [Callers -> {Started(op, mtu) : op \in Ops, mtu \in {"None", "1450"}}]

NextLocks == \E t \in Callers : Step(t)

\* fair scheduling: a caller that can take a step is not held up forever
SpecLocks == InitLocks /\ [][NextLocks]_vars /\ \A t \in Callers : WF_vars(Step(t))

(***************************************************************************)
(* OvsHybridPlugin.plug, called by several callers at once for the same    *)
(* VIF.  plug takes no lock: a step is one probe or one command, and any   *)
(* caller may run between any two of them.  No fault is injected: a        *)
(* command fails only when the host refuses it.                            *)
(***************************************************************************)
PLUG_VIF == [id |-> VIF_ID, plugin |-> "ovs_hybrid",
             port_profile |-> "VIFPortProfileOpenVSwitch",
             bridge_name |-> BR, network_bridge |-> INT_BR]

\* the commands of plug in program order: the argv, the exit codes it accepts
\* and the place plug goes on from
PlugCommands(vif) ==
    LET v1_name == get_veth_pair_names(vif)[1]
        v2_name == get_veth_pair_names(vif)[2]
    IN  [addbr |-> [cmd |-> <<"brctl", "addbr", vif.bridge_name>>,
                    codes |-> {0}, next |-> "setfd"],
         setfd |-> [cmd |-> <<"brctl", "setfd", vif.bridge_name, "0">>,
                    codes |-> {0}, next |-> "stp"],
         stp |-> [cmd |-> <<"brctl", "stp", vif.bridge_name, "off">>,
                  codes |-> {0}, next |-> "snooping"],
         snooping |-> [cmd |-> <<"tee", "multicast_snooping", vif.bridge_name, "0">>,
                       codes |-> {0, 1}, next |-> "probe_ipv6"],
         disable_ipv6 |-> [cmd |-> <<"tee", "disable_ipv6", vif.bridge_name, "1">>,
                           codes |-> {0, 1}, next |-> "probe_veth"],
         create_veth |-> [cmd |-> <<"create_veth_pair", v1_name, v2_name,
                                    network_device_mtu>>,
                          codes |-> {0}, next |-> "bridge_up"],
         bridge_up |-> [cmd |-> <<"ip", "link", "set", vif.bridge_name, "up">>,
                        codes |-> {0}, next |-> "addif"],
         addif |-> [cmd |-> <<"brctl", "addif", vif.bridge_name, v1_name>>,
                    codes |-> {0}, next |-> "create_port"],
         create_port |-> [cmd |-> <<"create_ovs_vif_port", vif.network_bridge, v2_name>>,
                          codes |-> {0}, next |-> "done"]]

PlugStarted == [Returned EXCEPT !.op = "plug", !.fn = "plug", !.pc = "probe_bridge"]

\* a probe of caller t: it goes on at `missing` when what it looks for is not
\* there, and at `found` when it is
PlugProbed(t, there, found, missing) ==
    /\ caller' = [caller EXCEPT ![t].absent = ~there,
                                ![t].pc = IF there THEN found ELSE missing]
    /\ UNCHANGED <<EXT_MANAGER, nextInst, registered, IPTABLES_MANAGER, scope, host, last,
                   lock>>

\* if not linux_net.device_exists(vif.bridge_name)
PlugProbeBridge(t) ==
    /\ caller[t].pc = "probe_bridge"
    /\ PlugProbed(t, ovs_device_exists(host, PLUG_VIF.bridge_name), "probe_veth", "addbr")

\* if os.path.exists(disv6)
PlugProbeIpv6(t) ==
    /\ caller[t].pc = "probe_ipv6"
    /\ PlugProbed(t, disv6_exists(host, PLUG_VIF.bridge_name), "disable_ipv6", "probe_veth")

\* if not linux_net.device_exists(v2_name)
PlugProbeVeth(t) ==
    /\ caller[t].pc = "probe_veth"
    /\ PlugProbed(t, ovs_device_exists(host, get_veth_pair_names(PLUG_VIF)[2]),
                  "done", "create_veth")

\* the next command of caller t; plug ends where a command raises
PlugCommand(t) ==
    /\ caller[t].pc \in DOMAIN PlugCommands(PLUG_VIF)
    /\ \E step \in {PlugCommands(PLUG_VIF)[caller[t].pc]} :
       \E r \in {execute(At(t), step.cmd, step.codes, 0)} :
          /\ host' = r.h
          /\ caller' = [caller EXCEPT ![t].cmds = r.cmds, ![t].err = r.err,
                                      ![t].pc = IF r.err = "none" THEN step.next
                                                ELSE "done"]
    /\ UNCHANGED <<EXT_MANAGER, nextInst, registered, IPTABLES_MANAGER, scope, last, lock>>

PlugStep(t) == PlugProbeBridge(t) \/ PlugProbeIpv6(t) \/ PlugProbeVeth(t) \/ PlugCommand(t)

\* every caller starts one plug of the VIF, on a host that has none of the
\* VIF's devices, with or without the IPv6 switch of a bridge
InitPlug ==
    /\ EXT_MANAGER = None
    /\ nextInst = 0
    /\ registered = FALSE
    /\ IPTABLES_MANAGER = None
    /\ scope = "concurrent_plug"
    /\ \E ipv6 \in BOOLEAN :
          host = [hy |-> [HyFresh EXCEPT !.ipv6 = ipv6], vlan |-> VlanAbsent, lb |-> LbFresh]
    /\ last = NoCall
    /\ lock = [name \in LockNames |-> Nobody]
    /\ caller = [t \in Callers |-> PlugStarted]

NextPlug == \E t \in Callers : PlugStep(t)

SpecPlug == InitPlug /\ [][NextPlug]_vars /\ \A t \in Callers : WF_vars(PlugStep(t))

(***************************************************************************)
(* ensure_bridge on interfaces that have addresses and routes to migrate,  *)
(* called again and again, with any command failing.                       *)
(***************************************************************************)
InitMigrate ==
    /\ EXT_MANAGER = None
    /\ nextInst = 0
    /\ registered = FALSE
    /\ IPTABLES_MANAGER = None
    /\ scope = "migration"
    /\ \E lb \in LbMigrate : host = [hy |-> HyFresh, vlan |-> VlanAbsent, lb |-> lb]
    /\ last = NoCall
    /\ lock = [name \in LockNames |-> Nobody]
    /\ caller = [t \in Callers |-> Returned]

NextMigrate == EnsureBridge

SpecMigrate == InitMigrate /\ [][NextMigrate]_vars

(***************************************************************************)
(* get_veth_pair_names on its own: a VIF is drawn, with an id of any       *)
(* length up to MaxIdLen, and the function is applied to it.               *)
(***************************************************************************)
MaxIdLen == 12
IdChars == {"4", "f"}
Ids == UNION {[1..n -> IdChars] : n \in 0..MaxIdLen}
NameVIFs == [id : Ids, plugin : {"ovs_hybrid"}, port_profile : PortProfiles,
             bridge_name : {BR}, network_bridge : {INT_BR}]

InitNames ==
    /\ EXT_MANAGER = None
    /\ nextInst = 0
    /\ registered = FALSE
    /\ IPTABLES_MANAGER = None
    /\ scope = "names"
    /\ host = [hy |-> HyFresh, vlan |-> VlanAbsent, lb |-> LbFresh]
    /\ \E vif \in NameVIFs : last = [NoCall EXCEPT !.op = "vif", !.args = <<vif>>]
    /\ lock = [name \in LockNames |-> Nobody]
    /\ caller = [t \in Callers |-> Returned]

GetVethPairNames ==
    /\ scope = "names"
    /\ last.op = "vif"
    /\ last' = [last EXCEPT !.op = "get_veth_pair_names", !.res = "ok",
                            !.value = get_veth_pair_names(last.args[1])]
    /\ UNCHANGED <<EXT_MANAGER, nextInst, registered, IPTABLES_MANAGER, scope, host, lock,
                   caller>>

NextNames == GetVethPairNames

SpecNames == InitNames /\ [][NextNames]_vars

(***************************************************************************)
(* Properties                                                              *)
(***************************************************************************)
Registry == EXT_MANAGER[1].obj          \* name -> instance, when the registry is set
FullyLoaded(mgr) == mgr # None /\ \A nm \in DOMAIN mgr[1].obj : mgr[1].obj[nm] # 0
IsDispatch(call) == call.op \in {"plug", "unplug"}
WrapperOf(op) == IF op = "plug" THEN "PlugException" ELSE "UnplugException"
OVS == "VIFPortProfileOpenVSwitch"
FullyPlugged(h) == h.hy.br /\ h.hy.brUp /\ h.hy.veth /\ h.hy.attached /\ h.hy.port

\* C1: with the registry set and the VIF's backend name registered, plug ends in
\* success or in PlugException carrying the VIF and the error raised under it,
\* and unplug in success or UnplugException; no other exception reaches the caller.
C1_BackendErrorsAreWrapped ==
    (IsDispatch(last) /\ EXT_MANAGER # None /\ last.args[1].plugin \in DOMAIN Registry) =>
        \/ last.res = "ok" /\ last.err = "none"
        \/ /\ last.res = WrapperOf(last.op)
           /\ last.err # "none"
           /\ last.carried = <<last.args[1], last.err>>

C1_Witness ==
    /\ last.op = "unplug"
    /\ last.res = "UnplugException"
    /\ last.err = "ProcessExecutionError"
    /\ last.args[1].plugin = "ovs_hybrid"
    /\ last.cmds # <<>>

\* C2: while the registry is unset, plug, unplug and host_info fail with
\* LibraryNotInitialized (also for a backend name nobody registered), invoke no
\* backend, run no command and leave the registry and the host as they were.
C2_UninitializedFails ==
    [][(EXT_MANAGER = None /\ last'.op \in {"plug", "unplug", "host_info"}) =>
          /\ last'.res = "LibraryNotInitialized"
          /\ last'.invoked = <<>>
          /\ last'.cmds = <<>>
          /\ EXT_MANAGER' = None
          /\ host' = host]_vars

C2_Witness ==
    /\ EXT_MANAGER = None
    /\ last.op = "plug"
    /\ last.args[1].plugin = "nonesuch"
    /\ last.res = "LibraryNotInitialized"

\* C3: with the registry set, plug and unplug of a VIF whose backend name has
\* no entry fail with NoMatchingPlugin carrying that name; no backend is
\* invoked, no command is run and the host is unchanged.
C3_UnknownBackendFails ==
    [][(EXT_MANAGER # None /\ IsDispatch(last')
        /\ last'.args[1].plugin \notin DOMAIN Registry) =>
          /\ last'.res = "NoMatchingPlugin"
          /\ last'.carried = <<last'.args[1].plugin>>
          /\ last'.invoked = <<>>
          /\ last'.cmds = <<>>
          /\ host' = host]_vars

C3_Witness ==
    /\ EXT_MANAGER # None
    /\ last.op = "unplug"
    /\ last.args[1].plugin = "nonesuch"
    /\ last.res = "NoMatchingPlugin"

\* C4: the registry is unset, or every discovered backend name is bound to a
\* loaded instance.
C4_RegistryAllOrNothing == EXT_MANAGER # None => FullyLoaded(EXT_MANAGER)

\* C5: once an initialize has succeeded, initialize(reset=false) discovers
\* nothing, loads nothing and leaves every binding as it is; the bindings
\* change only in initialize(reset=true), and then no name keeps an instance
\* it had.
C5_InitializeOnce ==
    [][registered =>
          /\ (last'.op = "initialize" /\ last'.args = <<FALSE>>) =>
                /\ EXT_MANAGER' = EXT_MANAGER
                /\ nextInst' = nextInst
                /\ ~last'.value.discovered
                /\ last'.invoked = <<>>
          /\ EXT_MANAGER' # EXT_MANAGER =>
                /\ last'.op = "initialize" /\ last'.args = <<TRUE>>
          /\ (last'.op = "initialize" /\ last'.args = <<TRUE>>) =>
                /\ last'.value.discovered
                /\ \A nm \in DOMAIN EXT_MANAGER'[1].obj, old \in DOMAIN Registry :
                      EXT_MANAGER'[1].obj[nm] = 0 \/ EXT_MANAGER'[1].obj[nm] # Registry[old]
       ]_vars

C5_Witness ==
    /\ registered
    /\ FullyLoaded(EXT_MANAGER)
    /\ last.op = "initialize"
    /\ last.args = <<FALSE>>
    /\ ~last.value.discovered
    /\ nextInst = Cardinality(Installed)

\* C6: with the registry set, host_info returns one entry per registered name,
\* each the describe() result of that name's backend, having invoked describe()
\* on every registered backend; or a describe() failed and its failure is what
\* the caller gets.
C6_HostInfoReport ==
    (last.op = "host_info" /\ EXT_MANAGER # None) =>
        LET names == EXT_MANAGER[1].names
        IN  \/ /\ last.res = "ok"
               /\ last.value = [i \in 1..Len(names) |-> backend_describe(names[i])]
               /\ last.invoked = [i \in 1..Len(names) |-> <<Registry[names[i]], "describe">>]
            \/ last.res = "DescribeError"

\* C7: the hybrid backend's plug and unplug of a VIF without a port profile
\* fail with MissingPortProfile, and of a VIF with another port profile than
\* the Open vSwitch one with WrongPortProfile, with no command run and the
\* host unchanged.
C7_ProfileCheckedFirst ==
    [][(IsDispatch(last') /\ last'.invoked # <<>> /\ last'.args[1].plugin = "ovs_hybrid"
        /\ last'.args[1].port_profile # OVS) =>
          /\ last'.err = IF last'.args[1].port_profile = "missing"
                         THEN "MissingPortProfile" ELSE "WrongPortProfile"
          /\ last'.cmds = <<>>
          /\ host' = host]_vars

C7_Witness ==
    /\ last.op = "unplug"
    /\ last.invoked # <<>>
    /\ last.args[1].plugin = "ovs_hybrid"
    /\ last.args[1].port_profile = "missing"
    /\ last.err = "MissingPortProfile"
    /\ FullyPlugged(host)

\* C8: when ensure_vlan returns, the vlan interface exists, has the MAC that
\* was given, is up and has the MTU that was given; when ensure_bridge returns,
\* the bridge exists with STP off and is up, and the interface that was given
\* is attached to it.
C8_EnsureReachesDesiredState ==
    /\ (last.op = "ensure_vlan" /\ last.res = "ok") =>
          /\ host.vlan.exists
          /\ last.args[3] # NoArg => host.vlan.mac = last.args[3]
          /\ host.vlan.up
          /\ host.vlan.mtu = last.args[4]
    /\ (last.op = "ensure_bridge" /\ last.res = "ok") =>
          /\ host.lb.exists /\ ~host.lb.stp /\ host.lb.up
          /\ last.args[2] # NoArg => host.lb.master = last.args[1]

\* C9: a hybrid plug that returns after an earlier plug of the same VIF failed
\* leaves the VIF fully plugged.
C9_RetriedPlugCompletes ==
    [][(/\ last.op = "plug" /\ last'.op = "plug"
        /\ last.args[1].plugin = "ovs_hybrid"
        /\ last'.args = last.args
        /\ last.res = "PlugException"
        /\ last'.res = "ok") => FullyPlugged(host')]_vars

\* C10: a call of ensure_vlan, ensure_bridge or hybrid plug that returns right
\* after a call with the same arguments returned leaves the host and the
\* firewall rules as they were and creates no device; ensure_vlan then only
\* sets the MTU again, and hybrid plug runs no command at all.
IsCreate(cmd) ==
    \/ cmd[1] = "brctl" /\ cmd[2] = "addbr"
    \/ cmd[1] = "ip" /\ cmd[2] = "link" /\ cmd[3] = "add"
    \/ cmd[1] \in {"create_veth_pair", "create_ovs_vif_port"}

C10_SecondCallChangesNothing ==
    [][(last'.repeat /\ last'.res = "ok") =>
          /\ host' = host
          /\ IPTABLES_MANAGER' = IPTABLES_MANAGER
          /\ \A i \in DOMAIN last'.cmds : ~IsCreate(last'.cmds[i])
          /\ last'.op = "ensure_vlan" =>
                last'.cmds = << <<"ip", "link", "set", VLAN_IF, "mtu", last'.args[4]>> >>
          /\ last'.op = "plug" => last'.cmds = <<>>]_vars

C10_Witness ==
    /\ last.op = "plug"
    /\ last.repeat
    /\ last.res = "ok"
    /\ last.args[1].plugin = "ovs_hybrid"
    /\ last.cmds = <<>>
    /\ FullyPlugged(host)

\* C11: a hybrid unplug that returns leaves no per-VIF bridge, no veth device
\* of either name and no OVS port of the VIF; when the bridge is absent it
\* runs only the deletion of the OVS port.
HybridCall(call, op) ==
    /\ call.op = op
    /\ call.invoked # <<>>
    /\ call.args[1].plugin = "ovs_hybrid"
    /\ call.args[1].port_profile = OVS

C11_UnplugLeavesNothing ==
    [][HybridCall(last', "unplug") =>
          /\ last'.res = "ok" =>
                /\ ~device_exists(host', BR)
                /\ ~device_exists(host', V1) /\ ~device_exists(host', V2)
                /\ ~host'.hy.port
          /\ ~device_exists(host, BR) =>
                last'.cmds = << <<"delete_ovs_vif_port", INT_BR, V2>> >>]_vars

C11_Witness ==
    /\ HybridCall(last, "unplug")
    /\ last.res = "ok"
    /\ Len(last.cmds) = 4
    /\ last.cmds[3] = <<"brctl", "delbr", BR>>
    /\ host.hy = [HyFresh EXCEPT !.ipv6 = host.hy.ipv6]

\* C12: at most one caller is inside ensure_vlan and at most one inside
\* ensure_bridge, and it holds the function's lock; the vlan interface exists
\* exactly when one caller's creation command succeeded, so no second caller
\* creates it: the others found it existing and ran no creation command.
InBody(t, fn) ==
    /\ caller[t].fn = fn
    /\ caller[t].pc \in {"probe", "create", "mtu", "attach", "filter", "release"}

IsVlanAdd(cmd) == cmd[1] = "ip" /\ cmd[2] = "link" /\ cmd[3] = "add"

\* the callers whose `ip link add` was run and did not fail
Creators ==
    {t \in Callers :
        \E i \in DOMAIN caller[t].cmds :
            /\ IsVlanAdd(caller[t].cmds[i])
            /\ ~(caller[t].err # "none" /\ i = Len(caller[t].cmds))}

C13_NoDeadlock ==
    /\ [](\A t \in Callers :
            /\ ~(lock["nova-lock_vlan"] = t /\ lock["nova-lock_bridge"] = t)
            /\ caller[t].pc \in {"acquire", "done"} => \A name \in LockNames : lock[name] # t
            /\ (caller[t].pc = "acquire" /\ lock[LockOf(caller[t].fn)] = Nobody) =>
                   synchronized_free(lock, LockOf(caller[t].fn)))
    /\ <>(\A t \in Callers : caller[t].pc = "done")

C13_Witness ==
    /\ \A t \in Callers : caller[t].pc = "done"
    /\ \E t \in Callers : caller[t].err # "none" /\ caller[t].cmds # <<>>
    /\ \E t \in Callers :
          /\ caller[t].op = "ensure_vlan_bridge"
          /\ caller[t].err = "none"
          /\ <<"apply">> \in Range(caller[t].cmds)
    /\ \A name \in LockNames : lock[name] = Nobody


\* the call observed by a step is a successful ensure_bridge on an interface
Migrated(call) == call.op = "ensure_bridge" /\ call.res = "ok" /\ call.args[2] # NoArg

\* C14: when ensure_bridge returns for an interface that had global addresses
\* and via routes, the bridge has every one of these addresses and routes and
\* the interface has none of them; no address and no route the host had before
\* the call is missing after it.
C14_MigrationLosesNothing ==
    [][(Migrated(last') /\ host.lb.ifAddrs # {} /\ host.lb.ifRoutes # {}) =>
          /\ Ips(host.lb.ifAddrs) \subseteq Ips(host'.lb.brAddrs)
          /\ Ips(host.lb.ifAddrs) \cap Ips(host'.lb.ifAddrs) = {}
          /\ host.lb.ifRoutes \subseteq host'.lb.brRoutes
          /\ host.lb.ifRoutes \cap host'.lb.ifRoutes = {}
          /\ Ips(host.lb.ifAddrs \cup host.lb.brAddrs)
                 \subseteq Ips(host'.lb.ifAddrs \cup host'.lb.brAddrs)
          /\ (host.lb.ifRoutes \cup host.lb.brRoutes)
                 \subseteq (host'.lb.ifRoutes \cup host'.lb.brRoutes)]_vars


\* C15: for a VIF id of any length, get_veth_pair_names returns two names of
\* at most 14 characters, the first qvb and the second qvo followed by the
\* leading characters of the id (all of them when the id has 11 or fewer), and
\* the same two names whatever the other attributes of the VIF are.
C15_VethNamesFromId ==
    last.op = "get_veth_pair_names" =>
        LET id == last.args[1].id
        IN  /\ Len(last.value) = 2
            /\ \A i \in 1..2 :
                  LET name == last.value[i]
                  IN  /\ Len(name) <= 14
                      /\ Len(name) = IF Len(id) <= 11 THEN 3 + Len(id) ELSE 14
                      /\ name = <<"q", "v", IF i = 1 THEN "b" ELSE "o">>
                                \o SubSeq(id, 1, Len(name) - 3)
            /\ \A pp \in PortProfiles :
                  get_veth_pair_names([last.args[1] EXCEPT !.port_profile = pp]) = last.value

C15_Witness ==
    /\ last.op = "get_veth_pair_names"
    /\ Len(last.args[1].id) \in 1..10
    /\ Len(last.value[1]) = 3 + Len(last.args[1].id)
    /\ Len(last.value[2]) = 3 + Len(last.args[1].id)


\* the commands of ensure_vlan, by what they do to the vlan interface
IsLinkAdd(cmd) == cmd[1] = "ip" /\ cmd[2] = "link" /\ cmd[3] = "add"
IsSetMac(cmd) == cmd[1] = "ip" /\ cmd[2] = "link" /\ cmd[3] = "set" /\ cmd[5] = "address"
IsLinkUp(cmd) == cmd[1] = "ip" /\ cmd[2] = "link" /\ cmd[3] = "set" /\ cmd[5] = "up"
IsSetMtu(cmd) == cmd[1] = "ip" /\ cmd[2] = "link" /\ cmd[3] = "set" /\ cmd[5] = "mtu"

\* the kinds of command a whole ensure_vlan runs, in order
VlanPlan(absent, mac_address) ==
    (IF absent THEN <<"add">> \o (IF mac_address # NoArg THEN <<"mac">> ELSE <<>>) \o <<"up">>
     ELSE <<>>) \o <<"mtu">>
VlanKind(cmd) ==
    IF IsLinkAdd(cmd) THEN "add" ELSE IF IsSetMac(cmd) THEN "mac"
    ELSE IF IsLinkUp(cmd) THEN "up" ELSE IF IsSetMtu(cmd) THEN "mtu" ELSE "other"

\* C16: ensure_vlan runs a creation command only when the vlan interface was
\* absent, and then creates it, sets the MAC if one was given, and brings the
\* link up, in this order, never setting the MAC after the link is up; a call
\* that gets past the creation steps sets the MTU that was given, last, on the
\* interface, whether it created the interface or found it; the name returned
\* is vlan followed by the vlan id.
C16_EnsureVlanOrder ==
    [][last'.op = "ensure_vlan" =>
          LET cmds == last'.cmds
              absent == ~host.vlan.exists
              plan == VlanPlan(absent, last'.args[3])
              interface == <<"v", "l", "a", "n">> \o last'.args[1]
          IN  /\ (\E i \in DOMAIN cmds : VlanKind(cmds[i]) \in {"add", "mac", "up"}) => absent
              /\ Len(cmds) \in 1..Len(plan)
              /\ \A i \in DOMAIN cmds : VlanKind(cmds[i]) = plan[i]
              /\ \A i, j \in DOMAIN cmds :
                    (IsLinkUp(cmds[i]) /\ IsSetMac(cmds[j])) => j < i
              /\ \A i \in DOMAIN cmds :
                    /\ IsSetMac(cmds[i]) => cmds[i][4] = interface /\ cmds[i][6] = last'.args[3]
                    /\ IsSetMtu(cmds[i]) =>
                          cmds[i] = <<"ip", "link", "set", interface, "mtu", last'.args[4]>>
              /\ (last'.res = "ok" \/ Len(cmds) = Len(plan)) => IsSetMtu(Last(cmds))
              /\ last'.res = "ok" => (Len(cmds) = Len(plan) /\ last'.value = interface)
              /\ last'.res # "ok" => last'.res = "ProcessExecutionError"]_vars

C16_Witness ==
    /\ last.op = "ensure_vlan"
    /\ last.res = "ok"
    /\ last.args[3] = MAC1
    /\ Len(last.cmds) = 4
    /\ IsLinkAdd(last.cmds[1]) /\ IsSetMac(last.cmds[2]) /\ IsLinkUp(last.cmds[3])
    /\ IsSetMtu(last.cmds[4])
    /\ last.value = VLAN_IF
    /\ host.vlan.exists /\ host.vlan.up /\ host.vlan.mac = MAC1


\* the commands of the migration, by what they do
IsRouteDel(cmd) == cmd[1] = "ip" /\ cmd[2] = "route" /\ cmd[3] = "del"
IsRouteAdd(cmd) == cmd[1] = "ip" /\ cmd[2] = "route" /\ cmd[3] = "add"
IsAddrDel(cmd) == cmd[1] = "ip" /\ cmd[2] = "addr" /\ cmd[3] = "del"
IsAddrAdd(cmd) == cmd[1] = "ip" /\ cmd[2] = "addr" /\ cmd[3] = "add"
IsAddrMove(cmd) == IsAddrDel(cmd) \/ IsAddrAdd(cmd)
RoutesDeleted(cmds) == {Tail3(cmds[i]) : i \in {j \in DOMAIN cmds : IsRouteDel(cmds[j])}}
RoutesAdded(cmds) == {Tail3(cmds[i]) : i \in {j \in DOMAIN cmds : IsRouteAdd(cmds[j])}}

\* C17: in an ensure_bridge with an interface, every route deletion comes
\* before every address command, and by the first address command every via
\* route of the interface has been deleted; an address is added to the bridge
\* right after the command that deletes it from the interface; every route
\* re-add comes after every address command, and by the first re-add every
\* IPv4 address of the interface has been moved; a call that returns has
\* re-added exactly the routes it deleted, and the host still has them.
C17_MigrationOrder ==
    [][(last'.op = "ensure_bridge" /\ last'.args[2] # NoArg) =>
          LET cmds == last'.cmds
              interface == last'.args[2]
              bridge == last'.args[1]
          IN  /\ \A i, j \in DOMAIN cmds :
                    /\ (IsRouteDel(cmds[i]) /\ IsAddrMove(cmds[j])) => i < j
                    /\ (IsAddrMove(cmds[i]) /\ IsRouteAdd(cmds[j])) => i < j
                    /\ (IsRouteDel(cmds[i]) /\ IsRouteAdd(cmds[j])) => i < j
              /\ (\E j \in DOMAIN cmds : IsAddrMove(cmds[j])) =>
                    RoutesDeleted(cmds) = host.lb.ifRoutes
              /\ \A j \in DOMAIN cmds :
                    IsAddrAdd(cmds[j]) =>
                       /\ Last(cmds[j]) = bridge
                       /\ j > 1
                       /\ cmds[j - 1] = [cmds[j] EXCEPT ![3] = "del", ![Len(cmds[j])] = interface]
              /\ (\E j \in DOMAIN cmds : IsRouteAdd(cmds[j])) =>
                    \A a \in Inet(host.lb.ifAddrs) :
                        \E i \in DOMAIN cmds : IsAddrAdd(cmds[i]) /\ cmds[i][4] = a.ip
              /\ RoutesAdded(cmds) \subseteq RoutesDeleted(cmds)
              /\ last'.res = "ok" =>
                    /\ RoutesAdded(cmds) = RoutesDeleted(cmds)
                    /\ host.lb.ifRoutes \subseteq host'.lb.ifRoutes \cup host'.lb.brRoutes]_vars

C17_Witness ==
    /\ last.op = "ensure_bridge"
    /\ last.res = "ok"
    /\ last.args[2] = ETH
    /\ RoutesDeleted(last.cmds) = {ROUTE, ROUTE_DEFAULT}
    /\ RoutesAdded(last.cmds) = {ROUTE, ROUTE_DEFAULT}
    /\ \E i, j \in DOMAIN last.cmds : IsAddrAdd(last.cmds[i]) /\ IsAddrAdd(last.cmds[j]) /\ i # j
    /\ host.lb.brRoutes = {ROUTE, ROUTE_DEFAULT}
    /\ host.lb.ifRoutes = {}


\* the states of the per-VIF devices a plug of the VIF goes through on a host
\* that has none of them: the state after each of its commands
PlugStates(h, vif) ==
    LET h0 == [h EXCEPT !.hy = [HyFresh EXCEPT !.ipv6 = h.hy.ipv6]]
    IN  {OvsHybridPlugin_plug(h0, vif, f).h.hy :
            f \in Faults(OvsHybridPlugin_plug(h0, vif, 0).cmds)}

\* C18: a hybrid unplug of a plugged VIF undoes the steps of plug in reverse
\* order: wherever it stops, after any of its commands, the per-VIF devices
\* are in a state a plug of the VIF goes through, and the bridge is not gone
\* while the OVS port of the VIF is still there.
C18_UnplugReversesPlug ==
    [][(HybridCall(last', "unplug") /\ FullyPlugged(host)) =>
          /\ host'.hy \in PlugStates(host, last'.args[1])
          /\ host'.hy.port => host'.hy.br]_vars


IsAddif(cmd) == cmd[1] = "brctl" /\ cmd[2] = "addif"
IsFirewall(cmd) == cmd[1] \in {"add_rule", "apply"}

\* C19: an ensure_bridge that goes on after its attach command does so with
\* the interface attached to the bridge it was given, whether the command
\* attached it or reported that it was attached already; an ensure_bridge
\* whose attach command reports anything else fails there, having run no
\* route or address command, added no firewall rule and applied none.
C19_AttachErrors ==
    [][(last'.op = "ensure_bridge" /\ last'.args[2] # NoArg) =>
          LET cmds == last'.cmds
          IN  \A i \in DOMAIN cmds :
                 IsAddif(cmds[i]) =>
                    /\ i < Len(cmds) => host'.lb.master = last'.args[1]
                    /\ i = Len(cmds) =>
                          /\ last'.res = "Exception"
                          /\ IPTABLES_MANAGER' = IPTABLES_MANAGER
                          /\ \A j \in DOMAIN cmds :
                                ~(IsFirewall(cmds[j]) \/ IsAddrMove(cmds[j])
                                  \/ IsRouteDel(cmds[j]) \/ IsRouteAdd(cmds[j]))]_vars


\* the firewall calls a whole ensure_bridge makes when filtering is asked for
DropRules(bridge) ==
    << <<"FORWARD", <<"--in-interface ", bridge, " -j ", iptables_drop_action>> >>,
       <<"FORWARD", <<"--out-interface ", bridge, " -j ", iptables_drop_action>> >> >>
FilterPlan(bridge, gateway) ==
    LET rules == IF gateway THEN get_gateway_rules(bridge) ELSE DropRules(bridge)
    IN  [i \in 1..Len(rules) |-> <<"add_rule", rules[i][1], rules[i][2]>>] \o << <<"apply">> >>

\* C20: an ensure_bridge asked to filter adds the rules of get_gateway_rules
\* for the bridge when gateway is true, and otherwise the two FORWARD drop
\* rules, in and out of the bridge, and nothing else; a call that returns has
\* added all of them and then called apply once, as its last step, whether it
\* created the bridge or found it; an ensure_bridge not asked to filter adds no
\* rule and does not call apply.
C20_Filtering ==
    [][last'.op = "ensure_bridge" =>
          LET cmds == last'.cmds
              fw == SelectSeq(cmds, IsFirewall)
              plan == FilterPlan(last'.args[1], last'.args[3])
              n == Len(cmds) - Len(fw)
          IN  /\ ~last'.args[4] => (fw = <<>> /\ IPTABLES_MANAGER' = IPTABLES_MANAGER)
              /\ last'.args[4] =>
                    /\ Len(fw) <= Len(plan)
                    /\ fw = SubSeq(plan, 1, Len(fw))
                    /\ fw = SubSeq(cmds, n + 1, Len(cmds))
                    /\ last'.res = "ok" =>
                          /\ fw = plan
                          /\ IPTABLES_MANAGER'[1].rules =
                                IPTABLES_MANAGER[1].rules
                                \cup {<<plan[i][2], plan[i][3]>> : i \in 1..Len(plan) - 1}
                          /\ IPTABLES_MANAGER'[1].applied = IPTABLES_MANAGER'[1].rules]_vars

C20_Witness ==
    /\ last.op = "ensure_bridge"
    /\ last.res = "ok"
    /\ last.repeat
    /\ last.args[4] /\ ~last.args[3]
    /\ SelectSeq(last.cmds, IsFirewall) = FilterPlan(LB, FALSE)
    /\ IPTABLES_MANAGER[1].applied =
          {<<"FORWARD", <<"--in-interface ", LB, " -j ", "DROP">> >>,
           <<"FORWARD", <<"--out-interface ", LB, " -j ", "DROP">> >>}


\* the device a creation command of plug creates is there already
CreatesExisting(cmd, h) ==
    \/ cmd[1] = "brctl" /\ cmd[2] = "addbr" /\ ovs_device_exists(h, cmd[3])
    \/ cmd[1] = "create_veth_pair" /\ ovs_device_exists(h, cmd[3])
    \/ cmd[1] = "create_ovs_vif_port" /\ h.hy.port

\* C21: when two callers plug the same VIF at the same time on a host that has
\* none of its devices, no caller issues the creation of the bridge, of the
\* veth pair or of the OVS port while that device exists, no caller's plug
\* fails, and once both have returned the VIF is fully plugged.
C21_ConcurrentPlugSafe ==
    [][/\ \A t \in Callers :
             Len(caller'[t].cmds) > Len(caller[t].cmds) =>
                 ~CreatesExisting(Last(caller'[t].cmds), host)
       /\ \A t \in Callers : caller'[t].err = "none"
       /\ (\A t \in Callers : caller'[t].pc = "done") => FullyPlugged(host')]_vars

====
